---------------------------- MODULE Spec2Model ----------------------------
(***************************************************************************)
(* Model of src/moodle_scan.py: the link-resolution and change-detection   *)
(* engine (scan_all and the helpers it calls) and the pure helper          *)
(* _course_display_name.                                                   *)
(*                                                                         *)
(* Python str values are TLA+ strings; TLC evaluates Len, SubSeq, Tail and *)
(* \o on them, so substring tests, strip, split and comparison are         *)
(* computed character by character as Python computes them.                *)
(***************************************************************************)
EXTENDS Integers, Sequences, FiniteSets, TLC

(***************************************************************************)
(* Characters and Python str operations                                    *)
(***************************************************************************)

\* The characters the model's strings are made of, in code-point order.
Chars == " #%&-./0123456789:=?ABCDEFGHIJKLMNOPQRSTUVWXYZ_abcdefghijklmnopqrstuvwxyz"

\* The code point of each character of Chars, position by position.
CodePoints ==
    <<32,35,37,38,45,46,47,48,49,50,51,52,53,54,55,56,57,58,61,63,
      65,66,67,68,69,70,71,72,73,74,75,76,77,78,79,80,81,82,83,84,85,86,87,88,89,90,
      95,
      97,98,99,100,101,102,103,104,105,106,107,108,109,110,111,112,113,114,115,116,
      117,118,119,120,121,122>>

CharAt(s, i) == SubSeq(s, i, i)

\* ord(c)
Ord(c) == CodePoints[CHOOSE i \in 1..Len(Chars) : CharAt(Chars, i) = c]

\* chr(n), for the code points of Chars
Chr(n) == CharAt(Chars, CHOOSE i \in 1..Len(Chars) : CodePoints[i] = n)

IsCodePoint(n) == \E i \in 1..Len(Chars) : CodePoints[i] = n

\* str.isspace for one character (the model's only whitespace is the blank)
IsSpace(c) == c = " "

\* \d for one character
IsDigit(c) == c \in {"0", "1", "2", "3", "4", "5", "6", "7", "8", "9"}

\* str.find(sub) + 1: the position of the first occurrence, 0 when absent
Find(sub, s) ==
    LET n == Len(sub)
        hits == {i \in 1..(Len(s) - n + 1) : SubSeq(s, i, i + n - 1) = sub}
    IN  IF hits = {} THEN 0 ELSE CHOOSE i \in hits : \A j \in hits : i <= j

\* str.rfind(sub) + 1
RFind(sub, s) ==
    LET n == Len(sub)
        hits == {i \in 1..(Len(s) - n + 1) : SubSeq(s, i, i + n - 1) = sub}
    IN  IF hits = {} THEN 0 ELSE CHOOSE i \in hits : \A j \in hits : i >= j

\* str.strip()
Strip(s) ==
    LET keep == {i \in 1..Len(s) : ~IsSpace(CharAt(s, i))}
    IN  IF keep = {} THEN ""
        ELSE SubSeq(s, CHOOSE i \in keep : \A j \in keep : i <= j,
                       CHOOSE i \in keep : \A j \in keep : i >= j)

\* str.lower() for one character
LowerChar(c) ==
    LET i == Find(c, "ABCDEFGHIJKLMNOPQRSTUVWXYZ")
    IN  IF i = 0 THEN c ELSE CharAt("abcdefghijklmnopqrstuvwxyz", i)

RECURSIVE Lower(_)
\* str.lower()
Lower(s) == IF s = "" THEN "" ELSE LowerChar(CharAt(s, 1)) \o Lower(Tail(s))

RECURSIVE StrLess(_, _)
\* a < b on str: lexicographic by code point
StrLess(a, b) ==
    IF b = "" THEN FALSE
    ELSE IF a = "" THEN TRUE
    ELSE IF CharAt(a, 1) = CharAt(b, 1) THEN StrLess(Tail(a), Tail(b))
    ELSE Ord(CharAt(a, 1)) < Ord(CharAt(b, 1))

\* sub in s
Contains(sub, s) == Find(sub, s) # 0

(***************************************************************************)
(* The URLs of the model                                                   *)
(***************************************************************************)

CourseUrl1 == "https://moodle.tau.ac.il/course/view.php?id=1"
CourseUrl2 == "https://moodle.tau.ac.il/course/view.php?id=2"

\* Two files served by the portal, a relative file link with an empty last
\* path segment (it can only stand on an activity page), and a page that is
\* neither a file nor an activity.
FileA   == "https://moodle.tau.ac.il/pluginfile.php/1/a.pdf"
FileB   == "https://moodle.tau.ac.il/pluginfile.php/1/B%20c.pdf"
FileRel == "/pluginfile.php/2/"
LoginPage == "https://moodle.tau.ac.il/login/index.php"

ResourceView == "https://moodle.tau.ac.il/mod/resource/view.php?id=3"
FolderView   == "https://moodle.tau.ac.il/mod/folder/view.php?id=4"
AssignView   == "https://moodle.tau.ac.il/mod/assign/view.php?id=5"

FileUrls == {FileA, FileB, FileRel}

(***************************************************************************)
(* _course_display_name                                                    *)
(***************************************************************************)

\* The least number of digits of a course-number prefix: \d{6,}
MinCourseDigits == 6

\* re.fullmatch(r"\d{6,}", s)
FullMatchCourseNumber(s) ==
    /\ Len(s) >= MinCourseDigits
    /\ \A i \in 1..Len(s) : IsDigit(CharAt(s, i))

\* _course_display_name(raw)
course_display_name(raw) ==
    LET s == Strip(raw)
        i == Find(" - ", s)
    IN  IF i # 0
        THEN LET left  == SubSeq(s, 1, i - 1)
                 right == SubSeq(s, i + 3, Len(s))
             IN  IF FullMatchCourseNumber(Strip(left)) THEN Strip(right) ELSE s
        ELSE s

(***************************************************************************)
(* File names and links                                                    *)
(***************************************************************************)

\* int(h, 16) for one hexadecimal digit, -1 for any other character
HexVal(c) ==
    LET i == Find(c, "0123456789ABCDEF")
        j == Find(c, "abcdef")
    IN  IF c = "" THEN -1 ELSE IF i # 0 THEN i - 1 ELSE IF j # 0 THEN j + 9 ELSE -1

RECURSIVE Unquote(_)
\* urllib.parse.unquote: %XX becomes the character with that code; a '%'
\* that is not followed by two hexadecimal digits is kept.
Unquote(s) ==
    IF s = "" THEN ""
    ELSE IF /\ CharAt(s, 1) = "%"
            /\ Len(s) >= 3
            /\ HexVal(CharAt(s, 2)) >= 0
            /\ HexVal(CharAt(s, 3)) >= 0
            /\ IsCodePoint(16 * HexVal(CharAt(s, 2)) + HexVal(CharAt(s, 3)))
         THEN Chr(16 * HexVal(CharAt(s, 2)) + HexVal(CharAt(s, 3)))
                  \o Unquote(SubSeq(s, 4, Len(s)))
         ELSE CharAt(s, 1) \o Unquote(Tail(s))

\* urlparse(url).path: the URL without fragment, query, scheme and host
UrlPath(url) ==
    LET h == Find("#", url)
        a == IF h = 0 THEN url ELSE SubSeq(url, 1, h - 1)
        q == Find("?", a)
        b == IF q = 0 THEN a ELSE SubSeq(a, 1, q - 1)
        c == Find("://", b)
        d == IF c = 0 THEN b ELSE SubSeq(b, c + 3, Len(b))
        e == Find("/", d)
    IN  IF c = 0 THEN b ELSE IF e = 0 THEN "" ELSE SubSeq(d, e, Len(d))

\* _safe_filename_from_url(url)
safe_filename_from_url(url) ==
    LET path == UrlPath(url)
        k    == RFind("/", path)
        name == Strip(Unquote(SubSeq(path, k + 1, Len(path))))
    IN  IF name = "" THEN url ELSE name

normalize_link_to_file(original_link, pluginfile_link) == pluginfile_link

\* _normalize_link_for_print(original_link, pluginfile_link)
normalize_link_for_print(original_link, pluginfile_link) ==
    IF \/ Contains("mod/resource/view.php", original_link)
       \/ Contains("mod/folder/view.php", original_link)
       \/ Contains("mod/assign/view.php", original_link)
    THEN original_link
    ELSE pluginfile_link

RECURSIVE SortedStrings(_)
\* sorted(S) for a set of str
SortedStrings(S) ==
    IF S = {} THEN <<>>
    ELSE LET m == CHOOSE x \in S : \A y \in S : ~StrLess(y, x)
         IN  <<m>> \o SortedStrings(S \ {m})

(***************************************************************************)
(* HTML pages and the two link extractors                                  *)
(***************************************************************************)

\* An anchor element <a href=...>text</a>; a page body is the sequence of
\* its anchors, or the empty string.
Anchor(href, text) == [href |-> href, text |-> text]

EmptyBody == [kind |-> "body", empty |-> TRUE, anchors |-> <<>>]
Body(anchors) == [kind |-> "body", empty |-> FALSE, anchors |-> anchors]

\* _extract_pluginfile_links_from_html(html)
extract_pluginfile_links_from_html(html) ==
    LET IsHit(a) == Contains("pluginfile.php", a.href) /\ a.href # ""
        hits == SelectSeq(html.anchors, IsHit)
    IN  [i \in 1..Len(hits) |-> <<hits[i].href, Strip(hits[i].text)>>]

\* _extract_activity_links_from_course_html(html): (pluginfiles, activity_pages)
extract_activity_links_from_course_html(html) ==
    LET hrefs == {html.anchors[i].href : i \in 1..Len(html.anchors)} \ {""}
        IsFile(h) == Contains("moodle.tau.ac.il/pluginfile.php/", h)
        IsActivity(h) ==
            \/ Contains("moodle.tau.ac.il/mod/resource/view.php", h)
            \/ Contains("moodle.tau.ac.il/mod/folder/view.php", h)
            \/ Contains("moodle.tau.ac.il/mod/assign/view.php", h)
    IN  [pluginfiles    |-> {h \in hrefs : IsFile(h)},
         activity_pages |-> {h \in hrefs : ~IsFile(h) /\ IsActivity(h)}]

(***************************************************************************)
(* HTTP answers and the request helpers                                    *)
(***************************************************************************)

\* Python's None, and an exception that leaves a function
None   == [kind |-> "None"]
Raised == [kind |-> "raised"]

\* The answer of the network to one request: the request raises (timeout,
\* connection error), or a response arrives.
Exc == [kind |-> "exception"]
Response(status, lm, url, text) ==
    [kind |-> "response", status |-> status, lm |-> lm, url |-> url, text |-> text]

\* The Last-Modified header of a response: absent, present with a text that
\* is no date ("" or garbage), or an HTTP date: a wall-clock hour and a zone.
NoHeader == [kind |-> "absent"]
TextHeader(v) == [kind |-> "text", v |-> v]
DateHeader(wall, zone) == [kind |-> "date", wall |-> wall, zone |-> zone]

\* The hours a zone of an HTTP date is ahead of UTC. "-0000" makes
\* parsedate_to_datetime return a naive datetime.
ZoneOffset(zone) == IF zone = "+0200" THEN 2 ELSE 0

\* A timezone-aware datetime, held as its instant (hours on the UTC line):
\* astimezone changes the zone a datetime is shown in, never its instant,
\* and aware datetimes compare by instant.
DateTime(instant) == [kind |-> "datetime", instant |-> instant]

parse_missing_header_as_now(lm) ==
    IF lm.kind = "absent" THEN DateTime(99)   \* the time of the scan
    ELSE IF lm.kind = "text" THEN None
    ELSE IF lm.zone = "-0000" THEN DateTime(lm.wall)
    ELSE DateTime(lm.wall - ZoneOffset(lm.zone))

\* _parse_http_last_modified(headers)
parse_http_last_modified(lm) ==
    IF lm.kind = "absent" THEN None
    ELSE IF lm.kind = "text"
         THEN None                     \* "" is falsy; garbage raises and is caught
         ELSE IF lm.zone = "-0000"
              THEN DateTime(lm.wall)   \* naive: replace(tzinfo=utc)
              ELSE DateTime(lm.wall - ZoneOffset(lm.zone))

\* The HEAD response makes _http_head_follow ask again with GET
HeadRejected(r) ==
    \/ r.status \in {403, 405}
    \/ (r.status >= 400 /\ r.lm.kind = "absent")

\* _http_head_follow(session, url), given the network's answers to the HEAD
\* request and to the GET request that may follow it
http_head_follow(head, get) ==
    IF head.kind = "exception" THEN None
    ELSE IF HeadRejected(head)
         THEN IF get.kind = "exception" THEN None ELSE get
         ELSE head

http_get_html_uncaught(resp) ==
    IF resp.kind = "exception" THEN Raised
    ELSE IF resp.status >= 400 THEN None
    ELSE resp.text

\* _http_get_html(session, url), given the network's answer to the GET request
http_get_html(resp) ==
    IF resp.kind = "exception" THEN None
    ELSE IF resp.status >= 400 THEN None
    ELSE resp.text

\* bool(r) of a requests.Response: r.ok, false for a status in 400..599
ResponseOk(r) == ~(r.status >= 400 /\ r.status < 600)

\* "not x" for a value that is None, a response or a page body
Falsy(x) ==
    \/ x.kind = "None"
    \/ (x.kind = "response" /\ ~ResponseOk(x))
    \/ (x.kind = "body" /\ x.empty)

\* _get_last_modified_for_file(session, file_url)
get_last_modified_for_file(head, get) ==
    LET r == http_head_follow(head, get)
    IN  IF r.kind = "raised" THEN Raised
        ELSE IF Falsy(r) THEN None
        ELSE parse_http_last_modified(r.lm)

RECURSIVE Dedup(_)
\* list(dict.fromkeys(urls)): first occurrences, in order
Dedup(urls) ==
    IF urls = <<>> THEN <<>>
    ELSE LET rest == Dedup(SubSeq(urls, 1, Len(urls) - 1))
             x    == urls[Len(urls)]
         IN  IF \E i \in 1..Len(rest) : rest[i] = x THEN rest ELSE Append(rest, x)

resolve_always_fetching(head, get, page) ==
    LET r     == http_head_follow(head, get)
        html  == http_get_html(page)
        links == IF Falsy(html) THEN <<>> ELSE extract_pluginfile_links_from_html(html)
        first == IF r.kind # "None" /\ Contains("pluginfile.php", r.url)
                 THEN <<r.url>> ELSE <<>>
    IN  [kind |-> "list",
         urls |-> Dedup(first \o [i \in 1..Len(links) |-> links[i][1]]),
         r |-> r, get_html_calls |-> 1, scrapes |-> IF Falsy(html) THEN 0 ELSE 1,
         scraped |-> links]

resolve_without_dedup(head, get, page) ==
    LET r == http_head_follow(head, get)
    IN  IF r.kind # "None" /\ r.url # "" /\ Contains("pluginfile.php", r.url)
        THEN [kind |-> "list", urls |-> <<r.url>>, r |-> r,
              get_html_calls |-> 0, scrapes |-> 0, scraped |-> <<>>]
        ELSE LET html  == http_get_html(page)
                 links == IF Falsy(html) THEN <<>>
                          ELSE extract_pluginfile_links_from_html(html)
             IN  [kind |-> "list", urls |-> [i \in 1..Len(links) |-> links[i][1]],
                  r |-> r, get_html_calls |-> 1,
                  scrapes |-> IF Falsy(html) THEN 0 ELSE 1, scraped |-> links]

\* _resolve_resource_view_to_file(session, view_url), given the network's
\* answers to the redirect probe (HEAD, then GET) and to the page fetch.
\* The result holds the returned list, and what the call did: the probe's
\* response, the number of _http_get_html calls and of HTML scrapes, and
\* the (href, text) pairs the scrape saw.
resolve_resource_view_to_file(head, get, page) ==
    LET r == http_head_follow(head, get)
    IN  IF r.kind = "raised" THEN Raised
        ELSE IF r.kind # "None" /\ r.url # "" /\ Contains("pluginfile.php", r.url)
        THEN [kind |-> "list", urls |-> <<r.url>>, r |-> r,
              get_html_calls |-> 0, scrapes |-> 0, scraped |-> <<>>]
        ELSE LET html == http_get_html(page)
             IN  IF html.kind = "raised" THEN Raised
                 ELSE IF Falsy(html)
                 THEN [kind |-> "list", urls |-> <<>>, r |-> r,
                       get_html_calls |-> 1, scrapes |-> 0, scraped |-> <<>>]
                 ELSE LET links == extract_pluginfile_links_from_html(html)
                      IN  [kind |-> "list",
                           urls |-> Dedup([i \in 1..Len(links) |-> links[i][1]]),
                           r |-> r, get_html_calls |-> 1, scrapes |-> 1,
                           scraped |-> links]

(***************************************************************************)
(* Bounds and the inputs of a scan                                         *)
(***************************************************************************)

\* The latest wall-clock hour of a Last-Modified header
MaxTime == 3

\* (course label, course URL) pairs: two labels whose display names sort
\* against their order here, and one URL under two labels
Beta1  == <<"05092843 - Beta", CourseUrl1>>
Alpha2 == <<"Alpha", CourseUrl2>>
Alpha1 == <<"Alpha", CourseUrl1>>

\* The lists of courses given to scan_all
CourseLists == { <<>>, <<Beta1>>, <<Beta1, Alpha2>>, <<Beta1, Alpha1>> }

\* The reference timestamp given to scan_all: an hour with earlier hours,
\* or none, before it and two hours after it
RefTimes == {MaxTime - 2}

\* The Last-Modified headers of the answers: none, "", a text that is no
\* date, a GMT date for every hour, one date east of UTC and one date
\* whose zone "-0000" makes it naive
LmHeaders ==
    {NoHeader, TextHeader(""), TextHeader("garbage")}
        \cup {DateHeader(w, "GMT") : w \in 1..MaxTime}
        \cup {DateHeader(2, "+0200"), DateHeader(MaxTime, "-0000")}

\* The network's answers to the HEAD request for a file, and to the GET
\* request _http_head_follow sends when the HEAD response is rejected
FileHeads ==
    {Exc}
        \cup {Response(200, h, "", EmptyBody) : h \in LmHeaders}
        \cup {Response(404, h, "", EmptyBody) :
                 h \in {NoHeader, DateHeader(MaxTime, "GMT")}}
        \cup {Response(405, NoHeader, "", EmptyBody)}
FileGets ==
    {Exc, Response(200, DateHeader(MaxTime, "GMT"), "", EmptyBody)}

\* The GET request is only sent for a rejected HEAD response
GetsFor(head, gets) ==
    IF head.kind = "response" /\ HeadRejected(head) THEN gets ELSE {Exc}

\* Course pages: a direct file link beside a resource-view link that may
\* lead to the same file; two activities scraped one after the other (and
\* an anchor with an empty href); a resource-view link alone
CoursePages ==
    { <<Anchor(FileA, "a"), Anchor(ResourceView, "r"), Anchor(LoginPage, "login")>>,
      <<Anchor(FolderView, "f"), Anchor(AssignView, "as"), Anchor("", "x")>>,
      <<Anchor(ResourceView, "r")>> }

CourseAnswers ==
    {Exc, Response(404, NoHeader, "", EmptyBody), Response(200, NoHeader, "", EmptyBody)}
        \cup {Response(200, NoHeader, "", Body(p)) : p \in CoursePages}

\* Activity pages: no anchor; one file linked twice around a link that is
\* no file; two files, the first with a blank text; a relative file link
ActivityPages ==
    { <<>>,
      <<Anchor(FileA, " Notes "), Anchor(LoginPage, "Home"), Anchor(FileA, "again")>>,
      <<Anchor(FileB, " "), Anchor(FileA, "b")>>,
      <<Anchor(FileRel, "")>> }

ActivityAnswers ==
    {Exc, Response(404, NoHeader, "", EmptyBody), Response(200, NoHeader, "", EmptyBody)}
        \cup {Response(200, NoHeader, "", Body(p)) : p \in ActivityPages}

\* The answers to the redirect probe of a resource-view activity
ProbeHeads ==
    { Exc,
      Response(405, NoHeader, LoginPage, EmptyBody),
      Response(200, NoHeader, LoginPage, EmptyBody),
      Response(200, NoHeader, FileA, EmptyBody),
      Response(200, NoHeader, FileB, EmptyBody) }
ProbeGets ==
    { Exc, Response(200, NoHeader, FileA, EmptyBody) }

AllKeys == {CourseUrl1, CourseUrl2} \X FileUrls

(***************************************************************************)
(* scan_all as a state machine: one step per loop iteration                *)
(***************************************************************************)

VARIABLES
    courses,          \* the argument courses: a list of (label, URL)
    reference_dt,     \* the argument reference_dt, as an instant
    pc,               \* where scan_all stands
    ci,               \* the index of the current course in courses
    pluginfiles,      \* what is left of sorted(pluginfiles)
    activity_pages,   \* what is left of sorted(activity_pages)
    act,              \* the current activity URL
    pf_urls,          \* what is left of pf_urls (resource-view branch)
    act_links,        \* what is left of the scraped (href, text) pairs
    seen_files,       \* the set seen_files
    found,            \* the list found
    lookups,          \* history: _get_last_modified_for_file calls per key
    produced,         \* history: records appended per key
    scraped,          \* history: the pairs the resolver's scrape saw
    fetch_failures,   \* history: the indices of the courses whose page fetch failed
    last              \* history: what the last step did

scan_vars == <<courses, reference_dt, pc, ci, pluginfiles, activity_pages, act,
               pf_urls, act_links, seen_files, found, lookups, produced,
               scraped, fetch_failures, last>>

\* FoundFile(course_name_raw, course_name_display, file_name, last_modified_il, link)
FoundFile(raw, display, file_name, lm, link) ==
    [course_name_raw |-> raw, course_name_display |-> display,
     file_name |-> file_name, last_modified_il |-> lm, link |-> link]

\* What a step did: the operation, the URLs it was about, how the file was
\* reached and with what anchor text, the network's answer to a page fetch,
\* the response and the result of a modification-time lookup, the result
\* of the resolver, and whether a record was appended.
NoEvent ==
    [op |-> "none", url |-> "", act |-> "", via |-> "", label |-> "",
     page |-> None, skipped |-> FALSE, looked |-> FALSE, r |-> None, lm |-> None,
     appended |-> FALSE, res |-> None, before |-> <<>>]

ScanInit ==
    /\ courses \in CourseLists
    /\ reference_dt \in RefTimes
    /\ pc = "course"
    /\ ci = 1
    /\ pluginfiles = <<>>
    /\ activity_pages = <<>>
    /\ act = ""
    /\ pf_urls = <<>>
    /\ act_links = <<>>
    /\ seen_files = {}
    /\ found = <<>>
    /\ lookups = [k \in AllKeys |-> 0]
    /\ produced = [k \in AllKeys |-> 0]
    /\ scraped = <<>>
    /\ fetch_failures = {}
    /\ last = NoEvent

\* An exception leaves scan_all: nothing is returned
Abort ==
    /\ pc' = "aborted"
    /\ last' = [NoEvent EXCEPT !.op = "abort"]
    /\ UNCHANGED <<courses, reference_dt, ci, pluginfiles, activity_pages, act,
                   pf_urls, act_links, seen_files, found, lookups, produced, scraped,
                   fetch_failures>>

SeenTestDropped(key, seen) == FALSE

\* key in seen_files
AlreadySeen(key, seen) == key \in seen

NewerOrEqual(lm, ref) == lm.instant >= ref

\* lm > reference_dt
NewerThan(lm, ref) == lm.instant > ref

filename_ignoring_label(txt, pf) == safe_filename_from_url(pf)

\* txt.strip() or _safe_filename_from_url(pf)
label_or_filename(txt, pf) ==
    IF Strip(txt) # "" THEN Strip(txt) ELSE safe_filename_from_url(pf)

\* The body shared by the three file loops: the seen_files test, the
\* modification-time lookup, the watermark test and the append. ev tells
\* the step apart; head and get are the network's answers to the lookup.
ProcessFile(pf, file_name, link, ev, head, get) ==
    LET course == courses[ci]
        key    == <<course[2], pf>>
    IN  IF AlreadySeen(key, seen_files)
        THEN /\ last' = [ev EXCEPT !.skipped = TRUE]
             /\ UNCHANGED <<pc, seen_files, found, lookups, produced>>
        ELSE LET r  == http_head_follow(head, get)
                 lm == get_last_modified_for_file(head, get)
             IN  IF lm.kind = "raised"
                 THEN /\ pc' = "aborted"
                      /\ last' = [NoEvent EXCEPT !.op = "abort"]
                      /\ UNCHANGED <<seen_files, found, lookups, produced>>
                 ELSE LET hit == ~Falsy(lm) /\ NewerThan(lm, reference_dt)
                      IN  /\ seen_files' = seen_files \cup {key}
                          /\ lookups' = [lookups EXCEPT ![key] = @ + 1]
                          /\ found' =
                               IF hit
                               THEN Append(found,
                                      FoundFile(course[1], course_display_name(course[1]),
                                                file_name, lm.instant, link))
                               ELSE found
                          /\ produced' =
                               IF hit THEN [produced EXCEPT ![key] = @ + 1] ELSE produced
                          /\ last' = [ev EXCEPT !.looked = TRUE, !.r = r, !.lm = lm,
                                                !.appended = hit]
                          /\ UNCHANGED pc

\* for course_name_raw, course_url in courses: fetch the page, extract
FetchCourse ==
    /\ pc = "course"
    /\ ci <= Len(courses)
    /\ \E resp \in CourseAnswers :
         LET html == http_get_html(resp)
             ev   == [NoEvent EXCEPT !.op = "course", !.url = courses[ci][2],
                                     !.page = resp]
         IN  IF html.kind = "raised" THEN Abort
             ELSE IF Falsy(html)
             THEN /\ ci' = ci + 1
                  /\ fetch_failures' = fetch_failures \cup {ci}
                  /\ last' = ev
                  /\ UNCHANGED <<courses, reference_dt, pc, pluginfiles, activity_pages,
                                 act, pf_urls, act_links, seen_files, found, lookups,
                                 produced, scraped>>
             ELSE LET links == extract_activity_links_from_course_html(html)
                  IN  /\ pluginfiles' = SortedStrings(links.pluginfiles)
                      /\ activity_pages' = SortedStrings(links.activity_pages)
                      /\ pc' = "pluginfiles"
                      /\ last' = ev
                      /\ UNCHANGED <<courses, reference_dt, ci, act, pf_urls, act_links,
                                     seen_files, found, lookups, produced, scraped,
                                     fetch_failures>>

\* for pf in sorted(pluginfiles): one iteration
DirectFile ==
    /\ pc = "pluginfiles"
    /\ pluginfiles # <<>>
    /\ LET pf == Head(pluginfiles)
           ev == [NoEvent EXCEPT !.op = "file", !.url = pf, !.via = "direct"]
       IN  \E head \in FileHeads : \E get \in GetsFor(head, FileGets) :
             ProcessFile(pf, safe_filename_from_url(pf), pf, ev, head, get)
    /\ pluginfiles' = Tail(pluginfiles)
    /\ UNCHANGED <<courses, reference_dt, ci, activity_pages, act, pf_urls, act_links,
                   scraped, fetch_failures>>

\* the loop over pluginfiles is exhausted
EndPluginfiles ==
    /\ pc = "pluginfiles"
    /\ pluginfiles = <<>>
    /\ pc' = "activities"
    /\ last' = NoEvent
    /\ UNCHANGED <<courses, reference_dt, ci, pluginfiles, activity_pages, act, pf_urls,
                   act_links, seen_files, found, lookups, produced, scraped,
                   fetch_failures>>

\* for act in sorted(activity_pages), resource-view branch: resolve
ResolveResource ==
    /\ pc = "activities"
    /\ activity_pages # <<>>
    /\ Contains("mod/resource/view.php", Head(activity_pages))
    /\ \E head \in ProbeHeads : \E get \in GetsFor(head, ProbeGets) :
       \E page \in ActivityAnswers :
         LET res == resolve_resource_view_to_file(head, get, page)
         IN  IF res.kind = "raised" THEN Abort
             ELSE /\ act' = Head(activity_pages)
                  /\ activity_pages' = Tail(activity_pages)
                  /\ pf_urls' = res.urls
                  /\ scraped' = res.scraped
                  /\ pc' = "pf_urls"
                  /\ last' = [NoEvent EXCEPT !.op = "resolve", !.act = Head(activity_pages),
                                             !.res = res, !.r = res.r,
                                             !.page = IF res.get_html_calls > 0
                                                      THEN page ELSE None]
                  /\ UNCHANGED <<courses, reference_dt, ci, pluginfiles, act_links,
                                 seen_files, found, lookups, produced, fetch_failures>>

\* The text of the first scraped anchor whose href is pf ("" when the URL
\* came from the redirect): what the resolver saw and did not return
ScrapedLabel(pf) ==
    LET hits == {i \in 1..Len(scraped) : scraped[i][1] = pf}
    IN  IF hits = {} THEN ""
        ELSE scraped[CHOOSE i \in hits : \A j \in hits : i <= j][2]

\* for pf in pf_urls: one iteration
ResourceFile ==
    /\ pc = "pf_urls"
    /\ pf_urls # <<>>
    /\ LET pf == Head(pf_urls)
           ev == [NoEvent EXCEPT !.op = "file", !.url = pf, !.act = act,
                                 !.via = IF scraped = <<>> THEN "redirect" ELSE "scrape",
                                 !.label = ScrapedLabel(pf)]
       IN  \E head \in FileHeads : \E get \in GetsFor(head, FileGets) :
             ProcessFile(pf, safe_filename_from_url(pf),
                         normalize_link_for_print(act, pf), ev, head, get)
    /\ pf_urls' = Tail(pf_urls)
    /\ UNCHANGED <<courses, reference_dt, ci, pluginfiles, activity_pages, act, act_links,
                   scraped, fetch_failures>>

\* the loop over pf_urls is exhausted
EndPfUrls ==
    /\ pc = "pf_urls"
    /\ pf_urls = <<>>
    /\ pc' = "activities"
    /\ act' = ""
    /\ scraped' = <<>>
    /\ last' = NoEvent
    /\ UNCHANGED <<courses, reference_dt, ci, pluginfiles, activity_pages, pf_urls,
                   act_links, seen_files, found, lookups, produced, fetch_failures>>

\* for act in sorted(activity_pages), folder-view and assign-view branch:
\* fetch the activity page and scrape it
ScrapeActivity ==
    /\ pc = "activities"
    /\ activity_pages # <<>>
    /\ ~Contains("mod/resource/view.php", Head(activity_pages))
    /\ \E page \in ActivityAnswers :
         LET act_html == http_get_html(page)
         IN  IF act_html.kind = "raised" THEN Abort
             ELSE IF Falsy(act_html)
             THEN /\ activity_pages' = Tail(activity_pages)
                  /\ last' = [NoEvent EXCEPT !.op = "scrape", !.act = Head(activity_pages),
                                             !.page = page]
                  /\ UNCHANGED <<courses, reference_dt, pc, ci, pluginfiles, act, pf_urls,
                                 act_links, seen_files, found, lookups, produced, scraped,
                   fetch_failures>>
             ELSE /\ act' = Head(activity_pages)
                  /\ activity_pages' = Tail(activity_pages)
                  /\ act_links' = extract_pluginfile_links_from_html(act_html)
                  /\ pc' = "act_links"
                  /\ last' = [NoEvent EXCEPT !.op = "scrape", !.act = Head(activity_pages),
                                             !.page = page]
                  /\ UNCHANGED <<courses, reference_dt, ci, pluginfiles, pf_urls,
                                 seen_files, found, lookups, produced, scraped,
                   fetch_failures>>

\* for pf, txt in _extract_pluginfile_links_from_html(act_html): one iteration
ActivityFile ==
    /\ pc = "act_links"
    /\ act_links # <<>>
    /\ LET pf  == Head(act_links)[1]
           txt == Head(act_links)[2]
           ev  == [NoEvent EXCEPT !.op = "file", !.url = pf, !.act = act,
                                  !.via = "scrape", !.label = txt]
       IN  IF ~Contains("pluginfile.php", pf)
           THEN /\ last' = [ev EXCEPT !.skipped = TRUE]
                /\ UNCHANGED <<pc, seen_files, found, lookups, produced>>
           ELSE \E head \in FileHeads : \E get \in GetsFor(head, FileGets) :
                  ProcessFile(pf, label_or_filename(txt, pf),
                              normalize_link_for_print(act, pf), ev, head, get)
    /\ act_links' = Tail(act_links)
    /\ UNCHANGED <<courses, reference_dt, ci, pluginfiles, activity_pages, act, pf_urls,
                   scraped, fetch_failures>>

\* the loop over the scraped links is exhausted
EndActLinks ==
    /\ pc = "act_links"
    /\ act_links = <<>>
    /\ pc' = "activities"
    /\ act' = ""
    /\ last' = NoEvent
    /\ UNCHANGED <<courses, reference_dt, ci, pluginfiles, activity_pages, pf_urls,
                   act_links, seen_files, found, lookups, produced, scraped,
                   fetch_failures>>

\* the loop over activity_pages is exhausted: on to the next course
EndActivities ==
    /\ pc = "activities"
    /\ activity_pages = <<>>
    /\ pc' = "course"
    /\ ci' = ci + 1
    /\ last' = NoEvent
    /\ UNCHANGED <<courses, reference_dt, pluginfiles, activity_pages, act, pf_urls,
                   act_links, seen_files, found, lookups, produced, scraped,
                   fetch_failures>>

sort_key_case_sensitive(x) ==
    <<x.course_name_display, x.last_modified_il, x.file_name>>

\* The key of found.sort: (course_name_display, last_modified_il, file_name.lower())
sort_key(x) == <<x.course_name_display, x.last_modified_il, Lower(x.file_name)>>

\* k1 < k2 on the key tuples
KeyLess(k1, k2) ==
    \/ StrLess(k1[1], k2[1])
    \/ /\ k1[1] = k2[1]
       /\ \/ k1[2] < k2[2]
          \/ (k1[2] = k2[2] /\ StrLess(k1[3], k2[3]))

RECURSIVE Decorate(_)
\* list.sort computes the key of every element once: the list of
\* <<key, element>> pairs
Decorate(s) ==
    IF s = <<>> THEN <<>>
    ELSE Append(Decorate(SubSeq(s, 1, Len(s) - 1)), <<sort_key(s[Len(s)]), s[Len(s)]>>)

RECURSIVE Insert(_, _)
\* x put into the sorted list d behind every element whose key is not greater
Insert(x, d) ==
    IF d = <<>> THEN <<x>>
    ELSE IF KeyLess(x[1], d[Len(d)][1])
         THEN Append(Insert(x, SubSeq(d, 1, Len(d) - 1)), d[Len(d)])
         ELSE Append(d, x)

RECURSIVE SortDecorated(_)
SortDecorated(d) ==
    IF d = <<>> THEN <<>>
    ELSE Insert(d[Len(d)], SortDecorated(SubSeq(d, 1, Len(d) - 1)))

\* list.sort(key=...): a stable sort by the keys
StableSort(s) ==
    LET d == SortDecorated(Decorate(s))
    IN  [i \in 1..Len(s) |-> d[i][2]]

\* found.sort(...); return found
SortAndReturn ==
    /\ pc = "course"
    /\ ci > Len(courses)
    /\ found' = StableSort(found)
    /\ pc' = "done"
    /\ last' = [NoEvent EXCEPT !.op = "sort", !.before = found]
    /\ UNCHANGED <<courses, reference_dt, ci, pluginfiles, activity_pages, act, pf_urls,
                   act_links, seen_files, lookups, produced, scraped,
                   fetch_failures>>

(***************************************************************************)
(* main, run after run: the last-run timestamp kept in STATE_FILE          *)
(***************************************************************************)

\* Instants are hours on the UTC line. The last hour of the clock and the
\* number of runs of main
MaxClock == 3
MaxRuns == 3

\* timedelta(hours=1) of the fallback of load_last_run
FallbackHours == 1

\* The hours TZ_IL is ahead of UTC in the period of the model
IlOffset == 2

\* STATE_FILE: missing, holding a text that is no JSON object with a
\* last_run_iso, or holding an ISO text: a wall-clock hour with its UTC
\* offset, or a wall-clock hour alone
NoFile == [kind |-> "missing"]
BadFile == [kind |-> "text"]
IsoFile(wall, offset) == [kind |-> "iso", wall |-> wall, offset |-> offset]
NaiveIsoFile(wall) == [kind |-> "naive", wall |-> wall]

\* run_start.astimezone(TZ_IL).isoformat()
isoformat_il(instant) == IsoFile(instant + IlOffset, IlOffset)

\* datetime.fromisoformat(iso), made aware in TZ_IL when naive, as an instant
fromisoformat_il(file) ==
    IF file.kind = "naive" THEN file.wall - IlOffset ELSE file.wall - file.offset

load_ignoring_file(file, now) == now - FallbackHours

\* load_last_run(), given the content of STATE_FILE and datetime.now()
load_last_run(file, now) ==
    IF file.kind \in {"iso", "naive"} THEN fromisoformat_il(file)
    ELSE now - FallbackHours

\* save_last_run(run_start): the new content of STATE_FILE
save_last_run(start) == isoformat_il(start)

\* What STATE_FILE may hold before the first run
FirstFiles == {NoFile, BadFile, isoformat_il(0), NaiveIsoFile(1)}

\* The modification times of the files of the portal, and the result of
\* scan_all for them: the times later than the reference timestamp
FileTimes == SUBSET {0, MaxClock}
ScanResults(mtimes, reference) == {t \in mtimes : t > reference}

\* What a call of telegram_send does: nothing when the Telegram secrets are
\* missing, a message, or an exception of requests.post
SendOutcomes == {"skipped", "sent", "raised"}

VARIABLES
    clock,          \* datetime.now()
    state_file,     \* the content of STATE_FILE
    main_pc,        \* where main stands
    run,            \* the number of the run
    run_start,      \* main's run_start
    last_run,       \* main's last_run
    results,        \* main's results
    loaded,         \* load_last_run has returned in this run
    scan_returned,  \* scan_all has returned in this run
    saved,          \* save_last_run has returned in this run
    notified,       \* the messages sent in this run
    prev            \* the run before: its last_run, and whether it raised
                    \* between load_last_run and the return of scan_all

main_vars == <<clock, state_file, main_pc, run, run_start, last_run, results, loaded,
               scan_returned, saved, notified, prev>>

NoRun == [reference |-> 0, early |-> FALSE]

MainIdle ==
    /\ clock = 0
    /\ state_file = NoFile
    /\ main_pc = "off"
    /\ run = 0
    /\ run_start = 0
    /\ last_run = 0
    /\ results = {}
    /\ loaded = FALSE
    /\ scan_returned = FALSE
    /\ saved = FALSE
    /\ notified = 0
    /\ prev = NoRun

MainInit ==
    /\ clock = 0
    /\ state_file \in FirstFiles
    /\ main_pc = "idle"
    /\ run = 1
    /\ run_start = 0
    /\ last_run = 0
    /\ results = {}
    /\ loaded = FALSE
    /\ scan_returned = FALSE
    /\ saved = FALSE
    /\ notified = 0
    /\ prev = NoRun

\* Time passes
Tick ==
    /\ main_pc # "off"
    /\ clock < MaxClock
    /\ clock' = clock + 1
    /\ UNCHANGED <<state_file, main_pc, run, run_start, last_run, results, loaded,
                   scan_returned, saved, notified, prev>>

\* main: the secrets are validated (SystemExit when one is missing, which
\* the handler of __main__ does not catch); run_start = datetime.now(TZ_IL)
StartRun ==
    /\ main_pc = "idle"
    /\ \E secrets \in BOOLEAN :
         IF secrets
         THEN main_pc' = "load" /\ run_start' = clock
         ELSE main_pc' = "failed" /\ UNCHANGED run_start
    /\ UNCHANGED <<clock, state_file, run, last_run, results, loaded, scan_returned,
                   saved, notified, prev>>

\* last_run = load_last_run()
LoadLastRun ==
    /\ main_pc = "load"
    /\ last_run' = load_last_run(state_file, clock)
    /\ loaded' = TRUE
    /\ main_pc' = "login"
    /\ UNCHANGED <<clock, state_file, run, run_start, results, scan_returned, saved,
                   notified, prev>>

\* build_driver, the login, ensure_on_moodle and get_courses: each may raise
Login ==
    /\ main_pc = "login"
    /\ \E ok \in BOOLEAN : main_pc' = IF ok THEN "scan" ELSE "error"
    /\ UNCHANGED <<clock, state_file, run, run_start, last_run, results, loaded,
                   scan_returned, saved, notified, prev>>

\* results = scan_all(session, courses, last_run)
ScanAll ==
    /\ main_pc = "scan"
    /\ \E mtimes \in FileTimes : results' = ScanResults(mtimes, last_run)
    /\ scan_returned' = TRUE
    /\ main_pc' = "save"
    /\ UNCHANGED <<clock, state_file, run, run_start, last_run, loaded, saved,
                   notified, prev>>

\* save_last_run(run_start); if not results: return
SaveLastRun ==
    /\ main_pc = "save"
    /\ state_file' = save_last_run(run_start)
    /\ saved' = TRUE
    /\ main_pc' = IF results = {} THEN "done" ELSE "notify"
    /\ UNCHANGED <<clock, run, run_start, last_run, results, loaded, scan_returned,
                   notified, prev>>

\* telegram_send_many(lines, header)
Notify ==
    /\ main_pc = "notify"
    /\ \E outcome \in SendOutcomes :
         /\ main_pc' = IF outcome = "raised" THEN "error" ELSE "done"
         /\ notified' = IF outcome = "sent" THEN notified + 1 ELSE notified
    /\ UNCHANGED <<clock, state_file, run, run_start, last_run, results, loaded,
                   scan_returned, saved, prev>>

\* except Exception of __main__: telegram_send(msg)
ReportError ==
    /\ main_pc = "error"
    /\ \E outcome \in SendOutcomes :
         notified' = IF outcome = "sent" THEN notified + 1 ELSE notified
    /\ main_pc' = "failed"
    /\ UNCHANGED <<clock, state_file, run, run_start, last_run, results, loaded,
                   scan_returned, saved, prev>>

\* The process has ended; the next run of main starts in a new process
NextRun ==
    /\ main_pc \in {"done", "failed"}
    /\ run < MaxRuns
    /\ run' = run + 1
    /\ prev' = IF loaded THEN [reference |-> last_run, early |-> ~scan_returned]
               ELSE [prev EXCEPT !.early = FALSE]
    /\ main_pc' = "idle"
    /\ results' = {}
    /\ loaded' = FALSE
    /\ scan_returned' = FALSE
    /\ saved' = FALSE
    /\ notified' = 0
    /\ UNCHANGED <<clock, state_file, run_start, last_run>>

(***************************************************************************)
(* _course_display_name applied to one label                               *)
(***************************************************************************)

VARIABLES
    raw,        \* the argument raw
    named,      \* whether _course_display_name has returned
    display     \* the value it returned

name_vars == <<raw, named, display>>
vars == <<scan_vars, name_vars, main_vars>>

\* The longest run of digits at the head of a label
MaxDigits == 7

DigitRuns == {SubSeq("12345678901234567890", 1, n) : n \in (MinCourseDigits - 2)..MaxDigits}

\* Labels: blanks, a digit run or a word, a separator, a rest, blanks
Labels ==
    { pre \o left \o sep \o rest \o post :
        pre \in {"", " "}, left \in DigitRuns \cup {"Sem", "123456x"},
        sep \in {" - ", "-", "  - ", " -"}, rest \in {"Alg", " Alg ", "A - B", ""},
        post \in {"", " "} }
      \cup {"Seminar XYZ", "", "   "}

NameIdle == raw = "" /\ named = FALSE /\ display = ""

ScanIdle ==
    /\ courses = <<>>
    /\ reference_dt = 0
    /\ pc = "idle"
    /\ ci = 1
    /\ pluginfiles = <<>>
    /\ activity_pages = <<>>
    /\ act = ""
    /\ pf_urls = <<>>
    /\ act_links = <<>>
    /\ seen_files = {}
    /\ found = <<>>
    /\ lookups = [k \in AllKeys |-> 0]
    /\ produced = [k \in AllKeys |-> 0]
    /\ scraped = <<>>
    /\ fetch_failures = {}
    /\ last = NoEvent

\* course_name_display = _course_display_name(course_name_raw)
DeriveName ==
    /\ ~named
    /\ display' = course_display_name(raw)
    /\ named' = TRUE
    /\ UNCHANGED raw

NameInit == raw \in Labels /\ named = FALSE /\ display = "" /\ ScanIdle /\ MainIdle
NameNext == DeriveName /\ UNCHANGED <<scan_vars, main_vars>>
SpecName == NameInit /\ [][NameNext]_vars

(***************************************************************************)
(* The scan                                                                *)
(***************************************************************************)

Init == ScanInit /\ NameIdle /\ MainIdle

Next ==
    \/ FetchCourse /\ UNCHANGED <<name_vars, main_vars>>
    \/ DirectFile /\ UNCHANGED <<name_vars, main_vars>>
    \/ EndPluginfiles /\ UNCHANGED <<name_vars, main_vars>>
    \/ ResolveResource /\ UNCHANGED <<name_vars, main_vars>>
    \/ ResourceFile /\ UNCHANGED <<name_vars, main_vars>>
    \/ EndPfUrls /\ UNCHANGED <<name_vars, main_vars>>
    \/ ScrapeActivity /\ UNCHANGED <<name_vars, main_vars>>
    \/ ActivityFile /\ UNCHANGED <<name_vars, main_vars>>
    \/ EndActLinks /\ UNCHANGED <<name_vars, main_vars>>
    \/ EndActivities /\ UNCHANGED <<name_vars, main_vars>>
    \/ SortAndReturn /\ UNCHANGED <<name_vars, main_vars>>

Spec == Init /\ [][Next]_vars

(***************************************************************************)
(* The runs of main                                                        *)
(***************************************************************************)

InitMain == ScanIdle /\ NameIdle /\ MainInit

NextMain ==
    \/ Tick /\ UNCHANGED <<scan_vars, name_vars>>
    \/ StartRun /\ UNCHANGED <<scan_vars, name_vars>>
    \/ LoadLastRun /\ UNCHANGED <<scan_vars, name_vars>>
    \/ Login /\ UNCHANGED <<scan_vars, name_vars>>
    \/ ScanAll /\ UNCHANGED <<scan_vars, name_vars>>
    \/ SaveLastRun /\ UNCHANGED <<scan_vars, name_vars>>
    \/ Notify /\ UNCHANGED <<scan_vars, name_vars>>
    \/ ReportError /\ UNCHANGED <<scan_vars, name_vars>>
    \/ NextRun /\ UNCHANGED <<scan_vars, name_vars>>

SpecMain == InitMain /\ [][NextMain]_vars

(***************************************************************************)
(* Properties                                                              *)
(***************************************************************************)

\* The key of the course being scanned and the file the last step was about
LastKey == <<courses[ci][2], last.url>>

\* The record the last step appended
LastRecord == found[Len(found)]

\* C1: every record of found has a modification time strictly greater than
\* reference_dt; a lookup that yields a time equal to or earlier than
\* reference_dt appends nothing, whichever path reached the file; and an
\* appended record carries the time the lookup yielded.
C1_NewerThanReference ==
    /\ \A i \in 1..Len(found) : found[i].last_modified_il > reference_dt
    /\ (last.looked /\ last.lm.kind = "datetime" /\ last.lm.instant <= reference_dt)
           => ~last.appended
    /\ last.appended =>
           (last.lm.kind = "datetime" /\ LastRecord.last_modified_il = last.lm.instant)

\* A file scraped from an activity page has a modification time equal to
\* reference_dt and is left out, in a scan that has found records
C1_Witness ==
    /\ last.looked
    /\ last.via = "scrape"
    /\ last.lm = DateTime(reference_dt)
    /\ ~last.appended
    /\ found # <<>>

\* C2: for each pair (course URL, file URL), _get_last_modified_for_file is
\* called at most once and at most one record is appended in one scan.
C2_OncePerKey ==
    \A k \in AllKeys : lookups[k] <= 1 /\ produced[k] <= 1

\* A file that already has its record is reached again through an activity
\* and skipped
C2_Witness ==
    /\ last.op = "file"
    /\ last.skipped
    /\ last.via # "direct"
    /\ lookups[LastKey] = 1
    /\ produced[LastKey] = 1

\* x may stand before y in the result: by course display name, then by
\* modification time, then by file name compared without case
C3_InOrder(x, y) ==
    \/ StrLess(x.course_name_display, y.course_name_display)
    \/ /\ x.course_name_display = y.course_name_display
       /\ \/ x.last_modified_il < y.last_modified_il
          \/ /\ x.last_modified_il = y.last_modified_il
             /\ ~StrLess(Lower(y.file_name), Lower(x.file_name))

C3_Count(x, s) == Cardinality({i \in 1..Len(s) : s[i] = x})

\* C3: the returned list is ordered by (course display name, modification
\* time, file name without case), and it is a permutation of the records
\* appended during the scan.
C3_SortedPermutation ==
    pc = "done" =>
        /\ \A i \in 1..(Len(found) - 1) : C3_InOrder(found[i], found[i + 1])
        /\ Len(found) = Len(last.before)
        /\ \A i \in 1..Len(found) :
              C3_Count(found[i], found) = C3_Count(found[i], last.before)

\* A returned list of three or more records that the sort has reordered,
\* with two neighbours of one course and one time whose names are in order
\* only when compared without case
C3_Witness ==
    /\ pc = "done"
    /\ Len(found) >= 3
    /\ found # last.before
    /\ \E i \in 1..(Len(found) - 1) :
          /\ found[i].course_name_display = found[i + 1].course_name_display
          /\ found[i].last_modified_il = found[i + 1].last_modified_il
          /\ StrLess(found[i + 1].file_name, found[i].file_name)

\* The answer to a page fetch is a failure: exception, status >= 400, empty body
C4_FetchFailed(ans) ==
    \/ ans.kind = "exception"
    \/ (ans.kind = "response" /\ (ans.status >= 400 \/ ans.text.empty))

\* The metadata request of a lookup failed: exception or error status
C4_LookupFailed(ev) ==
    /\ ev.looked
    /\ (ev.r.kind = "None" \/ (ev.r.kind = "response" /\ ev.r.status >= 400))

C4_Step ==
    /\ pc' # "aborted"
    /\ (last'.op = "course" /\ C4_FetchFailed(last'.page)) =>
          /\ found' = found /\ seen_files' = seen_files
          /\ ci' = ci + 1 /\ pc' = "course"
    /\ (last'.op = "scrape" /\ C4_FetchFailed(last'.page)) =>
          /\ found' = found /\ seen_files' = seen_files
          /\ ci' = ci /\ pc' = "activities"
          /\ pluginfiles' = pluginfiles /\ activity_pages' = Tail(activity_pages)
    /\ (last'.op = "resolve" /\ C4_FetchFailed(last'.page)) =>
          /\ found' = found /\ seen_files' = seen_files
          /\ ci' = ci /\ pf_urls' = <<>>
          /\ pluginfiles' = pluginfiles /\ activity_pages' = Tail(activity_pages)
    /\ (last'.op = "file" /\ C4_LookupFailed(last')) =>
          /\ found' = found
          /\ seen_files' = seen_files \cup {<<courses[ci][2], last'.url>>}
          /\ ci' = ci /\ pc' = pc
          /\ activity_pages' = activity_pages
          /\ Len(pluginfiles') + Len(pf_urls') + Len(act_links')
                = Len(pluginfiles) + Len(pf_urls) + Len(act_links) - 1

\* C4: no step ends the scan with an exception; a failed course page fetch,
\* a failed activity page fetch and a failed metadata request leave found as
\* it is, leave no trace in seen_files but the key of the failed file, and
\* move on to the next course, activity or link.
C4_FailuresAreSkipped == [][C4_Step]_vars

\* The scan has returned records although the page fetch of its first course
\* failed
C4_Witness ==
    /\ pc = "done"
    /\ 1 \in fetch_failures
    /\ Len(courses) = 2
    /\ found # <<>>

\* The modification time of the response cannot be determined: the request
\* raised, there is no Last-Modified header, or the header is no date
C5_Undetermined(r) ==
    \/ r.kind = "None"
    \/ (r.kind = "response" /\ r.lm.kind \in {"absent", "text"})

\* C5: when the modification time cannot be determined, the lookup yields
\* None without raising and no record is appended for the file.
C5_UndeterminedIsSkipped ==
    (last.looked /\ C5_Undetermined(last.r)) =>
        /\ pc # "aborted"
        /\ last.lm = None
        /\ ~last.appended
        /\ produced[LastKey] = 0

\* A lookup whose response carries a Last-Modified header that is no date
C5_Witness ==
    /\ last.looked
    /\ last.r.kind = "response"
    /\ last.r.status = 200
    /\ last.r.lm = TextHeader("garbage")
    /\ last.lm = None

\* C6: when the redirect probe ends at a URL that holds "pluginfile.php",
\* the resolver returns that one URL and neither fetches nor scrapes a page.
C6_FastPath ==
    (last.op = "resolve" /\ last.r.kind = "response"
        /\ Contains("pluginfile.php", last.r.url)) =>
        /\ pf_urls = <<last.r.url>>
        /\ last.res.get_html_calls = 0
        /\ last.res.scrapes = 0

\* The probe of a resource-view activity ended at a file
C6_Witness ==
    /\ last.op = "resolve"
    /\ last.r.kind = "response"
    /\ last.r.url = FileB
    /\ pf_urls = <<FileB>>

\* The hrefs of the anchors of a page that hold "pluginfile.php", in page order
C7_FileLinks(anchors) ==
    LET IsFileLink(a) == Contains("pluginfile.php", a.href)
        hits == SelectSeq(anchors, IsFileLink)
    IN  [i \in 1..Len(hits) |-> hits[i].href]

\* The position of the first occurrence of x in s
C7_First(x, s) == CHOOSE i \in 1..Len(s) : s[i] = x /\ \A j \in 1..(i - 1) : s[j] # x

\* out holds every element of s once, in the order of the first occurrences
C7_FirstOccurrences(out, s) ==
    /\ {out[i] : i \in 1..Len(out)} = {s[i] : i \in 1..Len(s)}
    /\ \A i \in 1..Len(out) : \A j \in (i + 1)..Len(out) :
          out[i] # out[j] /\ C7_First(out[i], s) < C7_First(out[j], s)

\* C7: when the redirect probe does not end at a URL that holds
\* "pluginfile.php", the resolver returns the file links of the activity
\* page in the order of their first occurrence, each once; it returns the
\* empty list when the page fetch fails or the page holds no file link.
C7_Fallback ==
    (last.op = "resolve"
        /\ ~(last.r.kind = "response" /\ Contains("pluginfile.php", last.r.url))) =>
        /\ pc # "aborted"
        /\ last.page # None
        /\ IF C4_FetchFailed(last.page)
           THEN pf_urls = <<>>
           ELSE C7_FirstOccurrences(pf_urls, C7_FileLinks(last.page.text.anchors))

\* The probe failed and the activity page links one file twice
C7_Witness ==
    /\ last.op = "resolve"
    /\ last.r = None
    /\ last.page.kind = "response"
    /\ Len(C7_FileLinks(last.page.text.anchors)) = 2
    /\ pf_urls = <<FileA>>

\* C8: a record made for a file found through an activity carries the URL of
\* the activity as its link; a record made for a direct file link carries
\* the file URL.
C8_ReportedLink ==
    last.appended =>
        IF last.via = "direct"
        THEN LastRecord.link = last.url
        ELSE /\ last.act \in {ResourceView, FolderView, AssignView}
             /\ LastRecord.link = last.act

\* A record for a file that the redirect of a resource-view activity led to
C8_Witness ==
    /\ last.appended
    /\ last.via = "redirect"
    /\ last.act = ResourceView
    /\ LastRecord.link = ResourceView
    /\ last.url # ResourceView

\* raw is six or more digits, then " - ", then a rest: the length of the
\* run of digits, 0 when raw has no such form
C9_Digits(r) ==
    LET runs == {n \in MinCourseDigits..Len(r) :
                    /\ \A i \in 1..n : IsDigit(CharAt(r, i))
                    /\ SubSeq(r, n + 1, n + 3) = " - "}
    IN  IF runs = {} THEN 0 ELSE CHOOSE n \in runs : TRUE

\* C9: the display name is the trimmed rest when raw is six or more digits,
\* " - " and a rest, and raw unchanged for every other label.
C9_DisplayNameAsClaimed ==
    named =>
        display = IF C9_Digits(raw) # 0
                  THEN Strip(SubSeq(raw, C9_Digits(raw) + 4, Len(raw)))
                  ELSE raw

\* C10 as claimed: the file name is the anchor text whenever the file link
\* was scraped from an activity page of any kind and the text is not blank,
\* and the name derived from the file URL otherwise.
C10_LabelWheneverScraped ==
    last.appended =>
        LastRecord.file_name =
            IF last.via = "scrape" /\ Strip(last.label) # ""
            THEN Strip(last.label)
            ELSE safe_filename_from_url(last.url)

\* C10 as amended: the file name is the anchor text when the file link was
\* scraped from a folder-view or assign-view page and the text is not blank;
\* it is the name derived from the file URL when the text is blank, for a
\* direct link, and for every file reached through a resource-view activity.
C10_LabelWhenScrapedByScanner ==
    last.appended =>
        LastRecord.file_name =
            IF /\ last.via = "scrape"
               /\ last.act \in {FolderView, AssignView}
               /\ Strip(last.label) # ""
            THEN Strip(last.label)
            ELSE safe_filename_from_url(last.url)

\* A record named after its URL for a file scraped from a resource-view page
\* whose anchor has a text, in a scan that has named another record after
\* the anchor text of a folder-view or assign-view page
C10_Witness ==
    /\ last.appended
    /\ last.via = "scrape"
    /\ last.act = ResourceView
    /\ Strip(last.label) # ""
    /\ LastRecord.file_name = safe_filename_from_url(last.url)
    /\ \E i \in 1..Len(found) :
          /\ found[i].link \in {FolderView, AssignView}
          /\ found[i].file_name = "Notes"

\* A step of main keeps to the order of the save: STATE_FILE changes only in
\* the step in which save_last_run returns; that step follows the return of
\* scan_all at once, whatever the results, stores run_start and comes before
\* every message of the run; run_start is the clock at the start of the run;
\* a run that has ended has saved exactly if scan_all had returned.
C11_SaveStep ==
    /\ state_file' # state_file => (saved' /\ ~saved)
    /\ (saved' /\ ~saved) =>
          /\ scan_returned
          /\ notified = 0
          /\ state_file'.kind = "iso"
          /\ state_file'.wall - state_file'.offset = run_start
    /\ (scan_returned /\ ~saved /\ main_pc' # main_pc) => saved'
    /\ (notified' > notified /\ scan_returned) => saved
    /\ run_start' # run_start => (main_pc = "idle" /\ ~loaded /\ run_start' = clock)
    /\ main_pc' \in {"done", "failed"} => (saved' <=> scan_returned')

\* The step in which load_last_run returns, in a run that follows a run
\* which raised before scan_all returned
C11_LoadAfterEarlyFailure == main_pc = "load" /\ main_pc' = "login" /\ prev.early

=============================================================================
